---------------------------- MODULE Spec2Model ----------------------------
(***************************************************************************)
(* A model of the Pure64 image utility (src/util/pure64.c) and of the      *)
(* directory tree codec (src/lib/dir.c).                                   *)
(*                                                                         *)
(* Representation choices.                                                 *)
(*  - A byte is a number in 0..255.  TLC's integers are 32-bit signed, so  *)
(*    a uint32_t is kept as its four bytes, least significant first (the   *)
(*    order fwrite(&checksum, 1, 4, file) puts them on disk on the x86-64  *)
(*    hosts the tool is built for).  A uint64_t that the program only      *)
(*    uses for sizes and sector numbers is a number, and is encoded to its *)
(*    eight bytes where it is written.                                     *)
(*  - A byte buffer (a file on disk, a payload, an fread buffer) is a      *)
(*    Blob: its size and the function from the offsets of its NONZERO      *)
(*    bytes to those bytes.  Every other offset below size holds 0.  The   *)
(*    representation is canonical (two blobs are equal iff they hold the   *)
(*    same bytes), and a hole left by fseek beyond the end of a file reads *)
(*    as zeros, as on the host.                                            *)
(***************************************************************************)
EXTENDS Integers, Sequences, FiniteSets, TLC

VARIABLES
  pc,             \* position in the running command
  rc,             \* the command's exit status ("none" while it runs)
  argv,           \* the command's argument vector
  disk,           \* the image file's contents
  fpos,           \* the position indicator of the open FILE
  trace,          \* history of the reads and writes done on the image file
  disk_size,      \* pure64_init: unsigned long long disk_size
  disk_uuid_str,  \* pure64_init: const char *disk_uuid_str
  gpt_header,     \* pure64_init: struct gpt_header gpt_header
  crc_buf,        \* crc32: the bytes handed to it
  crc_out,        \* crc32: the value it returned
  pure64_data_size,       \* size of the stage-2 binary linked into the tool
  stage_three_data_size,  \* size of the stage-3 binary linked into the tool
  fs,             \* ramfs_export: struct pure64_fs *fs
  st2_offset,     \* ramfs_export: uint64_t st2_offset
  st3_offset,     \* ramfs_export: uint64_t st3_offset
  fs_offset,      \* ramfs_export: uint64_t fs_offset
  pos,            \* ramfs_export: long int pos
  dir,            \* the struct pure64_dir the directory calls work on
  call,           \* the directory call made last and its arguments
  err,            \* the value that call returned
  imported        \* the struct pure64_dir filled by pure64_dir_import

crcVars == <<crc_buf, crc_out>>
initVars == <<argv, disk_size, disk_uuid_str, gpt_header>>
exportVars == <<pure64_data_size, stage_three_data_size, fs, st2_offset, st3_offset,
                fs_offset, pos>>
dirVars == <<dir, call, err, imported>>

vars == <<pc, rc, disk, fpos, trace, initVars, crcVars, exportVars, dirVars>>

---------------------------------------------------------------------------
(* Bounds of the model.                                                    *)

\* longest byte sequence handed to crc32 in SpecCrc
MaxCrcLen == 3

---------------------------------------------------------------------------
(* Bytes and 32-bit words.                                                 *)

Byte == 0..255

RECURSIVE BitOp8(_, _, _, _)
\* the bitwise operation op ("xor" or "and") on the low n bits of a and b
BitOp8(op, a, b, n) ==
  IF n = 0 THEN 0
  ELSE LET r   == BitOp8(op, a \div 2, b \div 2, n - 1)
           ba  == a % 2
           bb  == b % 2
           bit == IF op = "xor" THEN (ba + bb) % 2 ELSE ba * bb
       IN 2 * r + bit

\* C's ^ and & on bytes, tabulated once
Xor8Tab == [a \in Byte |-> [b \in Byte |-> BitOp8("xor", a, b, 8)]]
And8Tab == [a \in Byte |-> [b \in Byte |-> BitOp8("and", a, b, 8)]]

\* uint32_t operators; a word is <<b0, b1, b2, b3>>, b0 the low byte
Xor32(a, b) == <<Xor8Tab[a[1]][b[1]], Xor8Tab[a[2]][b[2]],
                 Xor8Tab[a[3]][b[3]], Xor8Tab[a[4]][b[4]]>>
And32(a, b) == <<And8Tab[a[1]][b[1]], And8Tab[a[2]][b[2]],
                 And8Tab[a[3]][b[3]], And8Tab[a[4]][b[4]]>>
\* a >> 1
Shr32(a) == <<(a[1] \div 2) + 128 * (a[2] % 2), (a[2] \div 2) + 128 * (a[3] % 2),
              (a[3] \div 2) + 128 * (a[4] % 2), a[4] \div 2>>
\* ~a
Not32(a) == <<255 - a[1], 255 - a[2], 255 - a[3], 255 - a[4]>>
\* -(a & 1) in uint32_t arithmetic: 0 - 1 wraps to 0xFFFFFFFF
NegLowBit32(a) == IF a[1] % 2 = 1 THEN <<255, 255, 255, 255>> ELSE <<0, 0, 0, 0>>
\* a byte widened to uint32_t
Widen32(byte) == <<byte, 0, 0, 0>>

---------------------------------------------------------------------------
(* Byte buffers.                                                           *)

EmptyBlob == [size |-> 0, nz |-> <<>>]

\* the blob holding the bytes of the sequence s
Blob(s) == [size |-> Len(s),
            nz   |-> [o \in {i - 1 : i \in {j \in 1..Len(s) : s[j] # 0}} |-> s[o + 1]]]

\* n zero bytes
Zeros(n) == [size |-> n, nz |-> <<>>]

\* the byte at offset o (0-based) of blob b
ByteAt(b, o) == IF o \in DOMAIN b.nz THEN b.nz[o] ELSE 0

\* the bytes of b as a sequence
BlobSeq(b) == [i \in 1..b.size |-> ByteAt(b, i - 1)]

\* bytes [from, from + n) of b, as a blob
Slice(b, from, n) ==
  [size |-> n,
   nz   |-> [o \in {p - from : p \in {q \in DOMAIN b.nz : q >= from /\ q < from + n}}
               |-> b.nz[o + from]]]

\* b with the bytes of w stored at offset at; the buffer grows if w ends beyond it
Overwrite(b, at, w) ==
  LET keep == {o \in DOMAIN b.nz : o < at \/ o >= at + w.size}
      new  == {at + o : o \in DOMAIN w.nz}
  IN [size |-> IF w.size > 0 /\ at + w.size > b.size THEN at + w.size ELSE b.size,
      nz   |-> [o \in keep \cup new |-> IF o \in new THEN w.nz[o - at] ELSE b.nz[o]]]

---------------------------------------------------------------------------
(* Program constants (pure64.c:30-52).                                     *)

GPT_PARTITION_HEADER_SIZE == 128
GPT_PARTITION_HEADER_COUNT == 128
GPT_HEADER_SIZE == 92
\* bytes per sector, the literal 512 of the source
SectorSize == 512
\* the size the MBR write is compared with (pure64.c:707)
mbr_data_size == 512

\* GPT_PARTITION_HEADER_COUNT * GPT_PARTITION_HEADER_SIZE, the entry array's bytes
PartitionArrayBytes == GPT_PARTITION_HEADER_COUNT * GPT_PARTITION_HEADER_SIZE

---------------------------------------------------------------------------
(* Host-order (little-endian) integers in memory and on disk.              *)

\* the eight bytes of a uint64_t below 2^31
U64LE(n) == <<n % 256, (n \div 256) % 256, (n \div 65536) % 256,
              (n \div 16777216) % 256, 0, 0, 0, 0>>

\* the four bytes of a uint32_t below 2^31
U32LE(n) == <<n % 256, (n \div 256) % 256, (n \div 65536) % 256,
              (n \div 16777216) % 256>>

\* the uint64_t held in the first eight bytes of blob b (TLC stops with an
\* overflow if it does not fit its integers)
U64Value(b) ==
  LET low  == ByteAt(b, 0) + 256 * ByteAt(b, 1) + 65536 * ByteAt(b, 2)
      high == ByteAt(b, 3) + 256 * ByteAt(b, 4) + 65536 * ByteAt(b, 5)
              + 16777216 * (ByteAt(b, 6) + 256 * ByteAt(b, 7))
  IN low + 16777216 * high

\* blob a followed by blob b
BlobCat(a, b) == Overwrite(a, a.size, b)

---------------------------------------------------------------------------
(* stdio on the image file.  An io value is the file's contents, the       *)
(* position indicator and the history of transfers.                        *)

IO == [disk |-> disk, fpos |-> fpos, trace |-> trace]

\* fseek(file, offset, SEEK_SET)
fseek(io, offset) == [io EXCEPT !.fpos = offset]

\* fwrite(w, 1, w.size, file), all bytes transferred
fwrite(io, w) ==
  [disk  |-> Overwrite(io.disk, io.fpos, w),
   fpos  |-> io.fpos + w.size,
   trace |-> Append(io.trace, [op |-> "write", at |-> io.fpos, len |-> w.size])]

\* the number of bytes fread(buf, 1, n, file) transfers: short at end of file
fread_count(io, n) ==
  IF io.fpos + n <= io.disk.size THEN n
  ELSE IF io.fpos >= io.disk.size THEN 0
  ELSE io.disk.size - io.fpos

\* the bytes fread(buf, 1, n, file) puts in buf
fread_buf(io, n) == Slice(io.disk, io.fpos, fread_count(io, n))

\* the file after fread(buf, 1, n, file)
fread(io, n) ==
  [io EXCEPT !.fpos = io.fpos + fread_count(io, n),
             !.trace = Append(io.trace, [op |-> "read", at |-> io.fpos,
                                         len |-> fread_count(io, n)])]

\* zero_file_data (pure64.c:58-62): size times fputc(0, file)
zero_file_data(io, size) == fwrite(io, Zeros(size))

---------------------------------------------------------------------------
(* CRC32 engine (crc32, pure64.c:68-91).                                   *)

\* 0xEDB88320
CrcPoly == <<32, 131, 184, 237>>

\* a polynomial with one bit wrong (0xEDB88321)
CrcShiftStep_BadPoly(crc) ==
  Xor32(Shr32(crc), And32(<<33, 131, 184, 237>>, NegLowBit32(crc)))

\* lines 85-86: mask = -(crc & 1); crc = (crc >> 1) ^ (0xEDB88320 & mask)
CrcShiftStep(crc) ==
  LET mask == NegLowBit32(crc)
  IN Xor32(Shr32(crc), And32(CrcPoly, mask))

RECURSIVE CrcShiftLoop(_, _)
\* line 84: for (j = 0; j < 8; j++)
CrcShiftLoop(crc, j) ==
  IF j >= 8 THEN crc
  ELSE LET next == CrcShiftStep(crc)
       IN IF next[1] >= 0 THEN CrcShiftLoop(next, j + 1) ELSE next

\* lines 82-87: the body of the loop over the bytes
CrcByteStep(crc, byte) == CrcShiftLoop(Xor32(crc, Widen32(byte)), 0)

RECURSIVE CrcLoop(_, _, _, _)
\* line 81: for (i = 0; i < buf_size; i++), over offsets lo..hi of buf in
\* increasing order; the range is cut in four only to keep the evaluation
\* shallow, and each part is finished before the next starts
CrcLoop(crc, buf, lo, hi) ==
  IF lo > hi THEN crc
  ELSE IF lo = hi THEN CrcByteStep(crc, ByteAt(buf, lo))
  ELSE LET q  == (hi - lo + 4) \div 4
           upto(x) == IF x < hi THEN x ELSE hi
           c1 == CrcLoop(crc, buf, lo, upto(lo + q - 1))
           c2 == CrcLoop(c1, buf, lo + q, upto(lo + 2 * q - 1))
           c3 == CrcLoop(c2, buf, lo + 2 * q, upto(lo + 3 * q - 1))
       IN IF c1[1] >= 0 /\ c2[1] >= 0 /\ c3[1] >= 0
          THEN CrcLoop(c3, buf, lo + 3 * q, hi)
          ELSE crc

\* crc32(buf, buf_size): buf is a blob, the result a uint32_t
crc32(buf) == Not32(CrcLoop(<<255, 255, 255, 255>>, buf, 0, buf.size - 1))

---------------------------------------------------------------------------
(* GPT header builder and checksum pass (pure64.c:93-301).                 *)

\* the 92 bytes export_gpt_header writes before the padding (lines 262-289)
GptHeaderBytes(header) ==
  <<69, 70, 73, 32, 80, 65, 82, 84>>          \* "EFI PART"
  \o <<0, 0, 1, 0>>                           \* version
  \o <<92, 0, 0, 0>>                          \* header size
  \o <<0, 0, 0, 0>>                           \* crc32 of header
  \o <<0, 0, 0, 0>>                           \* reserved
  \o U64LE(header.current_lba)
  \o U64LE(header.backup_lba)
  \o U64LE(header.first_usable_lba)
  \o U64LE(header.last_usable_lba)
  \o header.disk_uuid
  \o U64LE(header.partition_headers_lba)
  \o U32LE(header.partition_header_count)
  \o <<128, 0, 0, 0>>                         \* partition entry size
  \o <<0, 0, 0, 0>>                           \* crc32 of partition header array

\* export_gpt_header: the header, then zeros to the end of the sector
\* (lines 291-292); write_count is 512 when every fwrite is complete
export_gpt_header(io, header) ==
  fwrite(io, BlobCat(Blob(GptHeaderBytes(header)), Zeros(SectorSize - GPT_HEADER_SIZE)))

\* the checksum is written where the read left the position (no second fseek)
calculate_header_checksum_NoSeek(io, header_location) ==
  LET io1      == fseek(io, header_location)
      buf      == fread_buf(io1, GPT_HEADER_SIZE)
      io2      == fread(io1, GPT_HEADER_SIZE)
      checksum == crc32(buf)
      io4      == fwrite(io2, Blob(checksum))
  IN IF buf.size # GPT_HEADER_SIZE
     THEN [io |-> io2, status |-> "EXIT_FAILURE"]
     ELSE [io |-> io4, status |-> "EXIT_SUCCESS"]

\* calculate_header_checksum (lines 93-132)
calculate_header_checksum(io, header_location) ==
  LET io1      == fseek(io, header_location)
      buf      == fread_buf(io1, GPT_HEADER_SIZE)
      io2      == fread(io1, GPT_HEADER_SIZE)
      checksum == crc32(buf)
      io3      == fseek(io2, header_location + 16)
      io4      == fwrite(io3, Blob(checksum))
  IN IF buf.size # GPT_HEADER_SIZE
     THEN [io |-> io2, status |-> "EXIT_FAILURE"]
     ELSE [io |-> io4, status |-> "EXIT_SUCCESS"]

\* calculate_partition_headers_checksum (lines 134-206)
calculate_partition_headers_checksum(io) ==
  LET buf_size   == GPT_PARTITION_HEADER_SIZE * GPT_PARTITION_HEADER_COUNT
      \* primary entries: lines 144-169
      io1        == fseek(io, 1024)
      buf1       == fread_buf(io1, buf_size)
      io2        == fread(io1, buf_size)
      io3        == fwrite(fseek(io2, 512 + 88), Blob(crc32(buf1)))
      \* the primary header's backup LBA: lines 171-179
      io4        == fseek(io3, 512 + 32)
      lba_buf    == fread_buf(io4, 8)
      io5        == fread(io4, 8)
      backup_lba == U64Value(lba_buf)
      \* backup entries: lines 181-201
      io6        == fseek(io5, (backup_lba * 512)
                                - (GPT_PARTITION_HEADER_COUNT * GPT_PARTITION_HEADER_SIZE))
      buf2       == fread_buf(io6, buf_size)
      io7        == fread(io6, buf_size)
      io8        == fwrite(fseek(io7, (backup_lba * 512) + 88), Blob(crc32(buf2)))
  IN IF buf1.size # buf_size THEN [io |-> io2, status |-> "EXIT_FAILURE"]
     ELSE IF lba_buf.size # 8 THEN [io |-> io5, status |-> "EXIT_FAILURE"]
     ELSE IF buf2.size # buf_size THEN [io |-> io7, status |-> "EXIT_FAILURE"]
     ELSE [io |-> io8, status |-> "EXIT_SUCCESS"]

\* lines 218-234 of calculate_checksums: the two header checksums
calculate_header_checksums(io) ==
  LET r1         == calculate_header_checksum(io, 512)
      io1        == fseek(r1.io, 512 + 32)
      lba_buf    == fread_buf(io1, 8)
      io2        == fread(io1, 8)
      backup_lba == U64Value(lba_buf)
      r2         == calculate_header_checksum(io2, backup_lba * 512)
  IN IF r1.status # "EXIT_SUCCESS" THEN r1
     ELSE IF lba_buf.size # 8 THEN [io |-> io2, status |-> "EXIT_FAILURE"]
     ELSE r2

\* the header checksums computed before the entry-array checksums are stored
calculate_checksums_HeadersFirst(io) ==
  LET r1 == calculate_header_checksums(io)
  IN IF r1.status # "EXIT_SUCCESS" THEN r1
     ELSE calculate_partition_headers_checksum(r1.io)

\* calculate_checksums (lines 208-237)
calculate_checksums(io) ==
  LET r1 == calculate_partition_headers_checksum(io)
  IN IF r1.status # "EXIT_SUCCESS" THEN r1
     ELSE calculate_header_checksums(r1.io)

---------------------------------------------------------------------------
(* The init command (pure64_init, pure64.c:635-790).                       *)

\* command-line words: what strcmp, sscanf and the UUID parser make of them
\* (kind, text, value of a decimal numeral, bytes of a well-formed UUID)
Word(k, s, n, b) == [k |-> k, s |-> s, n |-> n, b |-> b]
OptDiskUuid == Word("option", "--disk-uuid", 0, <<>>)
OptDiskSize == Word("option", "--disk-size", 0, <<>>)
NumberArg(n) == Word("number", "", n, <<>>)
UuidArg(bytes) == Word("uuid", "", 0, bytes)
OtherArg == Word("text", "abc", 0, <<>>)
\* argv[argc]
NullArg == Word("null", "", 0, <<>>)

\* PURE64_DEFAULT_DISK_UUID, "74a7c14a-711d-4293-a731-569ca656799e" (line 39)
DefaultDiskUuid ==
  UuidArg(<<116, 167, 193, 74, 113, 29, 66, 147, 167, 49, 86, 156, 166, 86, 121, 158>>)

\* a UUID given on the command line
OtherDiskUuid ==
  UuidArg(<<1, 2, 3, 4, 5, 6, 7, 8, 9, 10, 11, 12, 13, 14, 15, 16>>)

\* sscanf(str, "%llu", &disk_size): the number of items assigned
sscanf_llu(str) == IF str.k = "number" THEN 1 ELSE 0

\* pure64_uuid_parse: the 16 bytes of a well-formed UUID string, or an error
pure64_uuid_parse(str) ==
  IF str.k = "uuid" THEN [err |-> "none", bytes |-> str.b]
  ELSE [err |-> "PURE64_EINVAL", bytes |-> <<>>]

\* minimum_size (lines 666-677)
minimum_size ==
  GPT_HEADER_SIZE
  + GPT_PARTITION_HEADER_COUNT * GPT_PARTITION_HEADER_SIZE
  + GPT_PARTITION_HEADER_COUNT * 512
  + GPT_PARTITION_HEADER_COUNT * GPT_PARTITION_HEADER_SIZE
  + GPT_HEADER_SIZE

\* line 656: else if (sscanf(argv[i + 1], "%llu", &disk_size) != 0)
sscanf_failed(ret) == ret # 0

RECURSIVE OptionLoop(_, _)
\* the option loop (lines 648-664); st.i is the 1-based index of argv[i]
OptionLoop(args, st) ==
  LET i    == st.i
      argc == Len(args)
      next == IF i + 1 <= argc THEN args[i + 1] ELSE NullArg
  IN IF i > argc THEN st
     ELSE IF args[i] = OptDiskUuid
       THEN OptionLoop(args, [st EXCEPT !.disk_uuid_str = next, !.i = i + 2])
     ELSE IF args[i] = OptDiskSize
       THEN IF i + 1 > argc
              THEN [st EXCEPT !.status = "EXIT_FAILURE"]
            ELSE IF sscanf_failed(sscanf_llu(next))
              THEN [st EXCEPT !.status = "EXIT_FAILURE",
                              !.disk_size = IF sscanf_llu(next) = 1 THEN next.n ELSE @]
            ELSE OptionLoop(args, [st EXCEPT !.i = i + 1])
     ELSE [st EXCEPT !.status = "EXIT_FAILURE"]

\* lines 684-688: pad disk to nearest sector
PadToSector(size) ==
  IF size % 512 # 0 THEN size + (512 - (size % 512)) ELSE size

\* mbr_data: the 512 bytes of the boot sector, ending in the 55 AA signature
mbr_data == [i \in 1..512 |-> IF i = 511 THEN 85 ELSE IF i = 512 THEN 170 ELSE 1 + (i % 199)]

Exit(status) == pc' = "exit" /\ rc' = status

SetIO(io) == disk' = io.disk /\ fpos' = io.fpos /\ trace' = io.trace

\* lines 645-699: options, minimum size, padding, UUID
pure64_init_args ==
  /\ pc = "init_args"
  /\ LET st   == OptionLoop(argv, [i |-> 1, disk_uuid_str |-> NullArg,
                                   disk_size |-> 1 * 1024 * 1024,
                                   status |-> "EXIT_SUCCESS"])
         str  == IF st.disk_uuid_str = NullArg THEN DefaultDiskUuid ELSE st.disk_uuid_str
         uuid == pure64_uuid_parse(str)
     IN IF st.status # "EXIT_SUCCESS"
          THEN /\ Exit("EXIT_FAILURE")
               /\ disk_size' = st.disk_size
               /\ disk_uuid_str' = st.disk_uuid_str
               /\ UNCHANGED gpt_header
        ELSE IF st.disk_size < minimum_size
          THEN /\ Exit("EXIT_FAILURE")
               /\ disk_size' = st.disk_size
               /\ disk_uuid_str' = st.disk_uuid_str
               /\ UNCHANGED gpt_header
        ELSE IF uuid.err # "none"
          THEN /\ Exit("EXIT_FAILURE")
               /\ disk_size' = PadToSector(st.disk_size)
               /\ disk_uuid_str' = str
               /\ UNCHANGED gpt_header
        ELSE /\ pc' = "init_open"
             /\ disk_size' = PadToSector(st.disk_size)
             /\ disk_uuid_str' = str
             /\ gpt_header' = [gpt_header EXCEPT !.disk_uuid = uuid.bytes]
             /\ UNCHANGED rc
  /\ UNCHANGED <<argv, disk, fpos, trace, crcVars, exportVars, dirVars>>

\* lines 701-711: fopen(filename, "wb+") and the MBR; argv is not read again
pure64_init_open ==
  /\ pc = "init_open"
  /\ argv' = <<>>
  /\ \/ \* fopen fails
        /\ Exit("EXIT_FAILURE")
        /\ UNCHANGED <<disk, fpos, trace>>
     \/ \* the file is truncated, the MBR write is short
        /\ Exit("EXIT_FAILURE")
        /\ disk' = EmptyBlob /\ fpos' = 0 /\ trace' = <<>>
     \/ /\ SetIO(fwrite([disk |-> EmptyBlob, fpos |-> 0, trace |-> <<>>], Blob(mbr_data)))
        /\ pc' = "init_primary"
        /\ UNCHANGED rc
  /\ UNCHANGED <<disk_size, disk_uuid_str, gpt_header, crcVars, exportVars, dirVars>>

\* a primary header whose backup LBA is the sector after the last one
PrimaryHeader_NoBackupSector(header, size) ==
  LET backup_lba == size \div 512
  IN [header EXCEPT
        !.current_lba = 1,
        !.backup_lba = backup_lba,
        !.first_usable_lba = (((1 + 1) * 512)
           + GPT_PARTITION_HEADER_COUNT * GPT_PARTITION_HEADER_SIZE) \div 512,
        !.last_usable_lba = ((backup_lba * 512)
           - (GPT_PARTITION_HEADER_COUNT * GPT_PARTITION_HEADER_SIZE) - 512) \div 512,
        !.partition_headers_lba = 2,
        !.partition_header_count = GPT_PARTITION_HEADER_COUNT]

\* lines 718-735: the primary header's fields
PrimaryHeader(header, size) ==
  LET backup_lba == (size - 512) \div 512
  IN [header EXCEPT
        !.current_lba = 1,
        !.backup_lba = backup_lba,
        !.first_usable_lba = (((1 + 1) * 512)
           + GPT_PARTITION_HEADER_COUNT * GPT_PARTITION_HEADER_SIZE) \div 512,
        !.last_usable_lba = ((backup_lba * 512)
           - (GPT_PARTITION_HEADER_COUNT * GPT_PARTITION_HEADER_SIZE) - 512) \div 512,
        !.partition_headers_lba = 2,
        !.partition_header_count = GPT_PARTITION_HEADER_COUNT]

\* lines 718-745: the primary header and its zeroed entries
pure64_init_primary ==
  /\ pc = "init_primary"
  /\ gpt_header' = PrimaryHeader(gpt_header, disk_size)
  /\ \/ \* export_gpt_header reports a short write
        /\ Exit("EXIT_FAILURE")
        /\ UNCHANGED <<disk, fpos, trace>>
     \/ /\ SetIO(zero_file_data(export_gpt_header(IO, gpt_header'),
                                GPT_PARTITION_HEADER_SIZE * GPT_PARTITION_HEADER_COUNT))
        /\ pc' = "init_backup"
        /\ UNCHANGED rc
  /\ UNCHANGED <<argv, disk_size, disk_uuid_str, crcVars, exportVars, dirVars>>

\* lines 767-772: the header as changed for the backup copy
BackupHeader(header) ==
  [header EXCEPT
     !.partition_headers_lba = ((header.backup_lba * 512)
        - GPT_PARTITION_HEADER_COUNT * GPT_PARTITION_HEADER_SIZE - 512) \div 512,
     !.current_lba = header.backup_lba,
     !.backup_lba = 1]

\* line 749: where the backup entries are zeroed
BackupArrayOffset(header) ==
  (header.backup_lba * 512) - (GPT_PARTITION_HEADER_COUNT * GPT_PARTITION_HEADER_SIZE)

\* lines 747-779: the backup entries and the backup header
pure64_init_backup ==
  /\ pc = "init_backup"
  /\ \/ \* the first fseek fails: gpt_header is not yet changed
        /\ Exit("EXIT_FAILURE")
        /\ UNCHANGED <<disk, fpos, trace, gpt_header>>
     \/ \* export_gpt_header reports a short write
        /\ Exit("EXIT_FAILURE")
        /\ gpt_header' = BackupHeader(gpt_header)
        /\ SetIO(fseek(zero_file_data(fseek(IO, BackupArrayOffset(gpt_header)),
                         GPT_PARTITION_HEADER_SIZE * GPT_PARTITION_HEADER_COUNT),
                       gpt_header.backup_lba * 512))
     \/ /\ gpt_header' = BackupHeader(gpt_header)
        /\ SetIO(export_gpt_header(
                   fseek(zero_file_data(fseek(IO, BackupArrayOffset(gpt_header)),
                           GPT_PARTITION_HEADER_SIZE * GPT_PARTITION_HEADER_COUNT),
                         gpt_header.backup_lba * 512),
                   gpt_header'))
        /\ pc' = "init_checksums"
        /\ UNCHANGED rc
  /\ UNCHANGED <<argv, disk_size, disk_uuid_str, crcVars, exportVars, dirVars>>

\* lines 781-789: the checksum pass, then fclose
pure64_init_checksums ==
  /\ pc = "init_checksums"
  /\ \/ \* a seek, read or write of the pass fails
        /\ Exit("EXIT_FAILURE")
        /\ UNCHANGED <<disk, fpos, trace>>
     \/ LET r == calculate_checksums(IO)
        IN /\ SetIO(r.io)
           /\ Exit(r.status)
  /\ UNCHANGED <<argv, disk_size, disk_uuid_str, gpt_header, crcVars, exportVars, dirVars>>

---------------------------------------------------------------------------
(* The directory tree (dir.c).  A char * is the sequence of the bytes of   *)
(* its buffer, terminator included; the null pointer is <<>>.  The arrays  *)
(* subdirs and files are sequences; the counts are fields of their own, as *)
(* in struct pure64_dir.                                                   *)

\* error codes of pure64/error.h: distinct and nonzero
PURE64_EIO == 5
PURE64_ENOMEM == 12
PURE64_EEXIST == 17

\* the C string of the characters s
CString(s) == Append(s, 0)

RECURSIVE pure64_strlen(_)
\* string.h:37-44: the number of characters before the terminator
pure64_strlen(str) == IF str[1] = 0 THEN 0 ELSE 1 + pure64_strlen(Tail(str))

RECURSIVE pure64_strcmp(_, _)
\* string.h:46-55: 1 where a's byte is the greater, -1 where b's is, 0 if equal
pure64_strcmp(a, b) ==
  IF a[1] > b[1] THEN 1
  ELSE IF a[1] < b[1] THEN 0 - 1
  ELSE IF a[1] = 0 THEN 0
  ELSE pure64_strcmp(Tail(a), Tail(b))

\* dir.c:20-27
pure64_dir_init ==
  [name_size |-> 0, subdir_count |-> 0, file_count |-> 0,
   name |-> <<>>, subdirs |-> <<>>, files |-> <<>>]

\* struct pure64_file after pure64_file_init
pure64_file_init == [name_size |-> 0, data_size |-> 0, name |-> <<>>, data |-> EmptyBlob]

\* dir.c:220-241, the allocation succeeding
pure64_dir_set_name(d, name) ==
  LET name_size == pure64_strlen(name)
  IN [d EXCEPT !.name = CString(SubSeq(name, 1, name_size)), !.name_size = name_size]

\* pure64_file_set_name, the allocation succeeding
pure64_file_set_name(file, name) ==
  LET name_size == pure64_strlen(name)
  IN [file EXCEPT !.name = CString(SubSeq(name, 1, name_size)), !.name_size = name_size]

\* a lookup that looks at the files only
pure64_dir_name_exists_FilesOnly(d, name) ==
  \E i \in 1..d.file_count : pure64_strcmp(d.files[i].name, name) = 0

\* dir.c:203-218
pure64_dir_name_exists(d, name) ==
  \/ \E i \in 1..d.file_count : pure64_strcmp(d.files[i].name, name) = 0
  \/ \E i \in 1..d.subdir_count : pure64_strcmp(d.subdirs[i].name, name) = 0

\* dir.c:47-78.  fail names the allocation that fails: "realloc" (line 61),
\* "set_name" (line 68) or "none".  The value is the directory after the call,
\* the value returned, and whether dir->files may be left pointing at a block
\* that pure64_realloc has released (the new block is never stored when the
\* name cannot be set; an empty array is the null pointer and stays valid).
pure64_dir_add_file(d, name, fail) ==
  IF pure64_dir_name_exists(d, name)
  THEN [dir |-> d, err |-> PURE64_EEXIST, stale |-> FALSE]
  ELSE IF fail = "realloc" THEN [dir |-> d, err |-> PURE64_ENOMEM, stale |-> FALSE]
  ELSE IF fail = "set_name"
  THEN [dir |-> d, err |-> PURE64_ENOMEM, stale |-> d.file_count > 0]
  ELSE [dir |-> [d EXCEPT !.files = Append(d.files,
                                           pure64_file_set_name(pure64_file_init, name)),
                          !.file_count = d.file_count + 1],
        err |-> 0, stale |-> FALSE]

\* dir.c:80-111, as pure64_dir_add_file with subdirs for files
pure64_dir_add_subdir(d, name, fail) ==
  IF pure64_dir_name_exists(d, name)
  THEN [dir |-> d, err |-> PURE64_EEXIST, stale |-> FALSE]
  ELSE IF fail = "realloc" THEN [dir |-> d, err |-> PURE64_ENOMEM, stale |-> FALSE]
  ELSE IF fail = "set_name"
  THEN [dir |-> d, err |-> PURE64_ENOMEM, stale |-> d.subdir_count > 0]
  ELSE [dir |-> [d EXCEPT !.subdirs = Append(d.subdirs,
                                             pure64_dir_set_name(pure64_dir_init, name)),
                          !.subdir_count = d.subdir_count + 1],
        err |-> 0, stale |-> FALSE]

---------------------------------------------------------------------------
(* The tree codec: pure64_dir_export and pure64_dir_import (dir.c:113-201) *)
(* over the file-backed stream (pure64.c:307-343).  encode_uint64,         *)
(* decode_uint64, pure64_file_export and pure64_file_import are taken from *)
(* the description of the format: 64-bit counts in host order, the file    *)
(* record being name size, data size, name, data.                          *)

\* pure64.c:331-336 with the write transferring every byte
pure64_stream_write(out, buf) == fwrite(out, buf)

\* the bytes of a buffer holding the characters of a name, without terminator
NameBytes(name, name_size) == Blob(SubSeq(name, 1, name_size))

\* eight bytes, host order
encode_uint64(n, out) == pure64_stream_write(out, Blob(U64LE(n)))

\* name size and data size, then the name, then the data
pure64_file_export(file, out) ==
  pure64_stream_write(
    pure64_stream_write(
      encode_uint64(file.data_size, encode_uint64(file.name_size, out)),
      NameBytes(file.name, file.name_size)),
    Slice(file.data, 0, file.data_size))

\* a header that writes file_count before subdir_count
ExportDirHeader_CountsSwapped(d, out) ==
  pure64_stream_write(
    encode_uint64(d.subdir_count,
      encode_uint64(d.file_count, encode_uint64(d.name_size, out))),
    NameBytes(d.name, d.name_size))

\* dir.c:117-131: name_size, subdir_count, file_count, then the name
ExportDirHeader(d, out) ==
  pure64_stream_write(
    encode_uint64(d.file_count,
      encode_uint64(d.subdir_count, encode_uint64(d.name_size, out))),
    NameBytes(d.name, d.name_size))

RECURSIVE ExportFiles(_, _, _)
\* dir.c:139-143, from file i on
ExportFiles(d, i, out) ==
  IF i > d.file_count THEN out
  ELSE LET next == pure64_file_export(d.files[i], out)
       IN IF next.fpos >= 0 THEN ExportFiles(d, i + 1, next) ELSE next

RECURSIVE pure64_dir_export(_, _)
RECURSIVE ExportSubdirs(_, _, _)
\* dir.c:133-137, from subdirectory i on
ExportSubdirs(d, i, out) ==
  IF i > d.subdir_count THEN out
  ELSE LET next == pure64_dir_export(d.subdirs[i], out)
       IN IF next.fpos >= 0 THEN ExportSubdirs(d, i + 1, next) ELSE next

\* dir.c:113-146, every write succeeding: the stream after the export
pure64_dir_export(d, out) ==
  LET header == ExportDirHeader(d, out)
  IN IF header.fpos >= 0 THEN ExportFiles(d, 1, ExportSubdirs(d, 1, header)) ELSE header

\* pure64.c:338-343: PURE64_EIO unless n bytes were transferred
pure64_stream_read(in, n) ==
  [err |-> IF fread_count(in, n) = n THEN 0 ELSE PURE64_EIO,
   buf |-> fread_buf(in, n),
   io  |-> fread(in, n)]

\* eight bytes, host order
decode_uint64(in) ==
  LET r == pure64_stream_read(in, 8)
  IN [err |-> r.err, value |-> IF r.err = 0 THEN U64Value(r.buf) ELSE 0, io |-> r.io]

\* what an import returns: the value returned, the structure as the call left
\* it, the stream, whether a pointer of the structure is left pointing at
\* released memory, and whether a counted child slot is left uninitialised
ImportResult(e, d, in, stale, uninit) ==
  [err |-> e, dir |-> d, io |-> in, stale |-> stale, uninit |-> uninit]

\* name size and data size, then the name, then the data
pure64_file_import(file, in) ==
  LET a == decode_uint64(in)
      b == decode_uint64(a.io)
      n == pure64_stream_read(b.io, a.value)
      t == pure64_stream_read(n.io, b.value)
  IN IF a.err # 0 THEN ImportResult(a.err, file, a.io, FALSE, FALSE)
     ELSE IF b.err # 0
       THEN ImportResult(b.err, [file EXCEPT !.name_size = a.value], b.io, FALSE, FALSE)
     ELSE IF n.err # 0
       THEN ImportResult(n.err, [file EXCEPT !.name_size = a.value,
                                             !.data_size = b.value], n.io, FALSE, FALSE)
     ELSE ImportResult(t.err,
                       [name_size |-> a.value, data_size |-> b.value,
                        name |-> CString(BlobSeq(n.buf)), data |-> t.buf],
                       t.io, FALSE, FALSE)

RECURSIVE ImportFiles(_, _, _)
\* dir.c:194-198, from file i on
ImportFiles(d, i, in) ==
  IF i > d.file_count THEN ImportResult(0, d, in, FALSE, FALSE)
  ELSE LET r == pure64_file_import(d.files[i], in)
           next == [d EXCEPT !.files[i] = r.dir]
       IN IF r.err # 0 THEN ImportResult(r.err, next, r.io, r.stale, r.uninit)
          ELSE ImportFiles(next, i + 1, r.io)

RECURSIVE pure64_dir_import(_, _, _)
RECURSIVE ImportSubdirs(_, _, _)
\* dir.c:188-192, from subdirectory i on
ImportSubdirs(d, i, in) ==
  IF i > d.subdir_count THEN ImportResult(0, d, in, FALSE, FALSE)
  ELSE LET r == pure64_dir_import(d.subdirs[i], in, FALSE)
           next == [d EXCEPT !.subdirs[i] = r.dir]
       IN IF r.err # 0 THEN ImportResult(r.err, next, r.io, r.stale, r.uninit)
          ELSE ImportSubdirs(next, i + 1, r.io)

\* dir.c:148-201.  nomem: one of the three allocations of lines 164-166 fails.
pure64_dir_import(d, in, nomem) ==
  LET a == decode_uint64(in)
      b == decode_uint64(a.io)
      c == decode_uint64(b.io)
      counted == [d EXCEPT !.name_size = a.value, !.subdir_count = b.value,
                           !.file_count = c.value]
      n == pure64_stream_read(c.io, a.value)
      \* lines 180-186: the name terminated, every child slot initialised
      ready == [counted EXCEPT
                  !.name = CString(BlobSeq(n.buf)),
                  !.subdirs = [i \in 1..b.value |-> pure64_dir_init],
                  !.files = [i \in 1..c.value |-> pure64_file_init]]
      subdirs == ImportSubdirs(ready, 1, n.io)
  IN IF a.err # 0 THEN ImportResult(a.err, d, a.io, FALSE, FALSE)
     ELSE IF b.err # 0
       THEN ImportResult(b.err, [d EXCEPT !.name_size = a.value], b.io, FALSE, FALSE)
     ELSE IF c.err # 0
       \* line 161: subdir_count is set, dir->subdirs is still as the caller left it
       THEN ImportResult(c.err, [d EXCEPT !.name_size = a.value,
                                          !.subdir_count = b.value], c.io, FALSE,
                         b.value > Len(d.subdirs))
     ELSE IF nomem
       \* lines 167-174: the three pointers are released and kept
       THEN ImportResult(PURE64_ENOMEM, counted, c.io, TRUE, b.value + c.value > 0)
     ELSE IF n.err # 0
       \* line 178: returns before the slots are initialised
       THEN ImportResult(n.err, counted, n.io, FALSE, b.value + c.value > 0)
     ELSE IF subdirs.err # 0 THEN subdirs
     ELSE ImportFiles(subdirs.dir, 1, subdirs.io)

---------------------------------------------------------------------------
(* Image assembly: ramfs_export (pure64.c:429-592).                        *)

PURE64_MINIMUM_DISK_SIZE == 1048576
\* 0x7f, the most sectors one BIOS read transfers (pure64.c:448, 453)
MaxStageSectors == 127
\* 0x2000, where the second stage goes (pure64.c:477)
Stage2Location == 8192

\* a stage binary of n bytes; its first and last byte are nonzero
StageData(n, tag) ==
  [size |-> n, nz |-> [o \in (IF n > 0 THEN {0, n - 1} ELSE {}) |-> tag]]

pure64_data == StageData(pure64_data_size, 2)
stage_three_data == StageData(stage_three_data_size, 3)

\* struct pure64_fs after pure64_fs_init: an empty root directory
pure64_fs_init == [root |-> pure64_dir_init]

\* the file system is its root directory, serialized where the stream stands
pure64_fs_export(f, out) == pure64_dir_export(f.root, out)

\* a check that also turns away a binary of exactly 0x7f sectors
StageTooBig_OffByOne(size) == ((size + 511) \div 512) >= MaxStageSectors

\* lines 448, 453: ((size + 511) / 512) > 0x7f
StageTooBig(size) == ((size + 511) \div 512) > MaxStageSectors

\* lines 483-485: round up to the next sector
RoundToSector(offset) == ((offset + 511) \div 512) * 512

\* fputc(byte, file)
fputc(io, byte) == fwrite(io, Blob(<<byte>>))

\* a padding that seeks one byte too far
PadImage_SeekPastEnd(io, p) ==
  IF p < PURE64_MINIMUM_DISK_SIZE
  THEN fputc(fseek(io, PURE64_MINIMUM_DISK_SIZE), 0)
  ELSE IF (p % 512) # 0
  THEN fputc(fseek(io, p + (512 - (p % 512))), 0)
  ELSE io

\* lines 557-563; the results of fseek and fputc are not examined there
PadImage(io, p) ==
  IF p < PURE64_MINIMUM_DISK_SIZE
  THEN fputc(fseek(io, PURE64_MINIMUM_DISK_SIZE - 1), 0)
  ELSE IF (p % 512) # 0
  THEN fputc(fseek(io, (p + (512 - (p % 512))) - 1), 0)
  ELSE io

\* struct pure64_mbr: where the two disk address packets lie in the sector,
\* and the sector count and the starting sector inside a packet
St2DapOffset == 478
St3DapOffset == 494
DapSectorCountOffset == 2
DapSectorOffset == 8

\* the sector image with one packet's sector and sector_count set
SetDap(sector, dap, start, count) ==
  Overwrite(Overwrite(sector, dap + DapSectorCountOffset, Blob(<<count % 256, count \div 256>>)),
            dap + DapSectorOffset, Blob(U64LE(start)))

\* the two descriptors filled with each other's values
PatchMbr_Swapped(sector) ==
  SetDap(SetDap(sector, St3DapOffset, st2_offset \div 512, (pure64_data_size + 511) \div 512),
         St2DapOffset, st3_offset \div 512, (stage_three_data_size + 511) \div 512)

\* lines 577-580: the four assignments to mbr.st2dap and mbr.st3dap
PatchMbr(sector) ==
  SetDap(SetDap(sector, St2DapOffset, st2_offset \div 512, (pure64_data_size + 511) \div 512),
         St3DapOffset, st3_offset \div 512, (stage_three_data_size + 511) \div 512)

\* lines 448-456: the size checks
ramfs_export_check ==
  /\ pc = "export_check"
  /\ IF StageTooBig(pure64_data_size) \/ StageTooBig(stage_three_data_size)
     THEN Exit("EXIT_FAILURE")
     ELSE pc' = "export_open" /\ UNCHANGED rc
  /\ UNCHANGED <<disk, fpos, trace, initVars, crcVars, exportVars, dirVars>>

\* lines 458-472: fopen(filename, "wb+") and the MBR
ramfs_export_open ==
  /\ pc = "export_open"
  /\ \/ \* fopen fails
        /\ Exit("EXIT_FAILURE")
        /\ UNCHANGED <<disk, fpos, trace>>
     \/ \* the file is created or truncated; the MBR write is short
        /\ Exit("EXIT_FAILURE")
        /\ disk' = EmptyBlob /\ fpos' = 0 /\ trace' = <<>>
     \/ /\ SetIO(fwrite([disk |-> EmptyBlob, fpos |-> 0, trace |-> <<>>], Blob(mbr_data)))
        /\ pc' = "export_layout"
        /\ UNCHANGED rc
  /\ UNCHANGED <<initVars, crcVars, exportVars, dirVars>>

\* lines 477-485: the three offsets
ramfs_export_layout ==
  /\ pc = "export_layout"
  /\ st2_offset' = RoundToSector(Stage2Location)
  /\ st3_offset' = RoundToSector(Stage2Location + pure64_data_size)
  /\ fs_offset' = RoundToSector((Stage2Location + pure64_data_size) + stage_three_data_size)
  /\ pc' = "export_stages"
  /\ UNCHANGED <<rc, disk, fpos, trace, initVars, crcVars, pure64_data_size,
                 stage_three_data_size, fs, pos, dirVars>>

\* lines 490-530: the two stages, then the seek to the file system
ramfs_export_stages ==
  /\ pc = "export_stages"
  /\ \/ \* the seek to st2_offset fails
        /\ Exit("EXIT_FAILURE")
        /\ UNCHANGED <<disk, fpos, trace>>
     \/ \* the write of the third stage is short
        /\ Exit("EXIT_FAILURE")
        /\ SetIO(fseek(fwrite(fseek(IO, st2_offset), pure64_data), st3_offset))
     \/ /\ SetIO(fseek(fwrite(fseek(fwrite(fseek(IO, st2_offset), pure64_data),
                                    st3_offset), stage_three_data),
                       fs_offset))
        /\ pc' = "export_fs"
        /\ UNCHANGED rc
  /\ UNCHANGED <<initVars, crcVars, exportVars, dirVars>>

\* lines 536-555: the file system through the stream, then ftell
ramfs_export_fs ==
  /\ pc = "export_fs"
  /\ \/ \* pure64_fs_export returns an error at its first write
        /\ Exit("EXIT_FAILURE")
        /\ UNCHANGED <<disk, fpos, trace, pos>>
     \/ \* ftell returns -1
        /\ Exit("EXIT_FAILURE")
        /\ SetIO(pure64_fs_export(fs, IO))
        /\ pos' = 0 - 1
     \/ /\ SetIO(pure64_fs_export(fs, IO))
        /\ pos' = fpos'
        /\ pc' = "export_pad"
        /\ UNCHANGED rc
  /\ UNCHANGED <<initVars, crcVars, pure64_data_size, stage_three_data_size, fs,
                 st2_offset, st3_offset, fs_offset, dirVars>>

\* lines 557-563: the padding
ramfs_export_pad ==
  /\ pc = "export_pad"
  /\ SetIO(PadImage(IO, pos))
  /\ pc' = "export_mbr"
  /\ UNCHANGED <<rc, initVars, crcVars, exportVars, dirVars>>

\* lines 568-591: the MBR read back, patched and written again
ramfs_export_mbr ==
  /\ pc = "export_mbr"
  /\ \/ \* pure64_mbr_read returns an error
        /\ Exit("EXIT_FAILURE")
        /\ UNCHANGED <<disk, fpos, trace>>
     \/ \* pure64_mbr_write returns an error
        /\ Exit("EXIT_FAILURE")
        /\ SetIO(fseek(fread(fseek(IO, 0), 512), 0))
     \/ /\ SetIO(fwrite(fseek(fread(fseek(IO, 0), 512), 0),
                        PatchMbr(fread_buf(fseek(IO, 0), 512))))
        /\ Exit("EXIT_SUCCESS")
  /\ UNCHANGED <<initVars, crcVars, exportVars, dirVars>>

---------------------------------------------------------------------------
(* Values of variables a command does not use.                             *)

NoCrc == crc_buf = EmptyBlob /\ crc_out = "none"
NoDisk == disk = EmptyBlob /\ fpos = 0 /\ trace = <<>>
\* struct gpt_header before pure64_init assigns its fields
UnsetHeader ==
  [current_lba |-> 0, backup_lba |-> 0, first_usable_lba |-> 0, last_usable_lba |-> 0,
   disk_uuid |-> <<>>, partition_headers_lba |-> 0, partition_header_count |-> 0]

NoInit == argv = <<>> /\ disk_size = 0 /\ disk_uuid_str = NullArg /\ gpt_header = UnsetHeader
NoExport ==
  /\ pure64_data_size = 0 /\ stage_three_data_size = 0 /\ fs = pure64_fs_init
  /\ st2_offset = 0 /\ st3_offset = 0 /\ fs_offset = 0 /\ pos = 0
NoCall ==
  [op |-> "none", name |-> <<>>, path |-> <<>>, fail |-> "none", stale |-> FALSE,
   uninit |-> FALSE, at |-> 0]
NoDir == dir = pure64_dir_init /\ call = NoCall /\ err = 0 /\ imported = pure64_dir_init

---------------------------------------------------------------------------
(* SpecCrc: crc32 applied to byte sequences.                               *)

\* the bytes the short inputs are drawn from
CrcBytes == {0, 1, 49, 128, 255}

\* "123456789"
CrcCheckInput == <<49, 50, 51, 52, 53, 54, 55, 56, 57>>

RECURSIVE SeqsUpTo(_, _)
\* the sequences over S of length at most n
SeqsUpTo(S, n) ==
  IF n = 0 THEN {<<>>}
  ELSE LET shorter == SeqsUpTo(S, n - 1)
       IN shorter \cup {Append(s, x) : s \in {t \in shorter : Len(t) = n - 1}, x \in S}

CrcInputs == SeqsUpTo(CrcBytes, MaxCrcLen) \cup {CrcCheckInput}

InitCrc ==
  /\ pc = "crc_call"
  /\ rc = "none"
  /\ crc_buf \in {Blob(s) : s \in CrcInputs}
  /\ crc_out = "none"
  /\ NoDisk /\ NoInit /\ NoExport /\ NoDir

CrcCall ==
  /\ pc = "crc_call"
  /\ crc_out' = crc32(crc_buf)
  /\ pc' = "crc_done"
  /\ UNCHANGED <<rc, disk, fpos, trace, initVars, crc_buf, exportVars, dirVars>>

NextCrc == CrcCall

SpecCrc == InitCrc /\ [][NextCrc]_vars

---------------------------------------------------------------------------
(* The reference definition of CRC-32 used to judge crc32: the register is *)
(* the set of its 1-bit positions and the input is taken bit by bit.       *)

\* exponents of the CRC-32 generator polynomial below x^32
RefPolyExponents == {0, 1, 2, 4, 5, 7, 8, 10, 11, 12, 16, 22, 23, 26}

\* the reflected polynomial as register bits
RefTaps == {31 - e : e \in RefPolyExponents}

RefSymDiff(A, B) == (A \ B) \cup (B \ A)

RECURSIVE RefPow2(_)
RefPow2(n) == IF n = 0 THEN 1 ELSE 2 * RefPow2(n - 1)

\* one input bit (0 or 1) shifted into the register
RefBitStep(reg, inbit) ==
  LET feedback == ((IF 0 \in reg THEN 1 ELSE 0) + inbit) % 2
      shifted  == {b - 1 : b \in reg \ {0}}
  IN IF feedback = 1 THEN RefSymDiff(shifted, RefTaps) ELSE shifted

RECURSIVE RefBits(_, _, _)
\* bits k..7 of byte, least significant first
RefBits(reg, byte, k) ==
  IF k > 7 THEN reg
  ELSE LET next == RefBitStep(reg, (byte \div RefPow2(k)) % 2)
       IN IF next = next THEN RefBits(next, byte, k + 1) ELSE next

RECURSIVE RefBytes(_, _, _)
RefBytes(reg, s, i) ==
  IF i > Len(s) THEN reg
  ELSE LET next == RefBits(reg, s[i], 0)
       IN IF next = next THEN RefBytes(next, s, i + 1) ELSE next

RECURSIVE RefSum(_)
RefSum(S) == IF S = {} THEN 0 ELSE LET x == CHOOSE y \in S : TRUE IN x + RefSum(S \ {x})

\* the register as the four bytes of a uint32_t, low byte first
RefWord(reg) ==
  [i \in 1..4 |-> RefSum({RefPow2(b - 8 * (i - 1)) : b \in {c \in reg : c \div 8 = i - 1}})]

RefCrc32(s) ==
  LET final == RefBytes(0..31, s, 1)
  IN IF final = final THEN RefWord((0..31) \ final) ELSE <<>>

\* C8: in every state where crc32 has returned, its result equals the
\* bit-by-bit reference CRC-32 of its input; for the empty input it is
\* 0x00000000 and for "123456789" it is 0xCBF43926 (bytes 26 39 F4 CB).
C8_Crc32MatchesReference ==
  pc = "crc_done" =>
    /\ crc_out = RefCrc32(BlobSeq(crc_buf))
    /\ crc_buf = EmptyBlob => crc_out = <<0, 0, 0, 0>>
    /\ crc_buf = Blob(CrcCheckInput) => crc_out = <<38, 57, 244, 203>>

\* crc32 has returned 0xCBF43926 for "123456789"
C8_Witness ==
  pc = "crc_done" /\ crc_buf = Blob(CrcCheckInput) /\ crc_out = <<38, 57, 244, 203>>

---------------------------------------------------------------------------
(* SpecInit: the init command on every short argument vector.              *)

\* most words after "init" on the command line
MaxArgs == 3

\* the words the argument vectors are made of
ArgWords ==
  {OptDiskUuid, OptDiskSize, OtherDiskUuid, OtherArg,
   NumberArg(minimum_size - 1), NumberArg(minimum_size)}

InitInit ==
  /\ pc = "init_args"
  /\ rc = "none"
  /\ argv \in SeqsUpTo(ArgWords, MaxArgs)
  /\ disk_size = 0 /\ disk_uuid_str = NullArg /\ gpt_header = UnsetHeader
  /\ NoDisk /\ NoCrc /\ NoExport /\ NoDir

NextInit ==
  \/ pure64_init_args
  \/ pure64_init_open
  \/ pure64_init_primary
  \/ pure64_init_backup
  \/ pure64_init_checksums

SpecInit == InitInit /\ [][NextInit]_vars

---------------------------------------------------------------------------
(* Properties of the init command.                                         *)

InitSucceeded == pc = "exit" /\ rc = "EXIT_SUCCESS"

\* the backup LBA field of the primary header as it is on disk
OnDiskBackupLba == U64Value(Slice(disk, 512 + 32, 8))

\* the header at byte offset location, read back from the image
OnDiskHeader(location) == Slice(disk, location, GPT_HEADER_SIZE)

\* bytes 16..19 of the header at location are the CRC32 of its 92 bytes with
\* those four bytes zeroed
HeaderChecksumMatches(location) ==
  LET header == OnDiskHeader(location)
  IN BlobSeq(Slice(header, 16, 4)) = crc32(Overwrite(header, 16, Zeros(4)))

\* bytes 88..91 of the header at location are the CRC32 of the 16384 bytes at
\* array_offset
ArrayChecksumMatches(location, array_offset) ==
  BlobSeq(Slice(disk, location + 88, 4))
    = crc32(Slice(disk, array_offset, PartitionArrayBytes))

\* the byte offset named by the partition-array LBA field of the header at location
ArrayFieldOffset(location) == U64Value(Slice(disk, location + 72, 8)) * 512

\* C3: after a successful init the primary header (offset 512) and the backup
\* header (offset backup_lba * 512) both validate: the stored header checksum
\* is the CRC32 of the 92 header bytes with the checksum field zeroed, and the
\* value at byte 88 is the CRC32 of that header's entry array on disk, taken
\* both where init wrote the array and where the header's LBA field points.
C3_HeadersValidate ==
  InitSucceeded =>
    /\ HeaderChecksumMatches(512)
    /\ HeaderChecksumMatches(OnDiskBackupLba * 512)
    /\ ArrayChecksumMatches(512, 1024)
    /\ ArrayFieldOffset(512) = 1024
    /\ ArrayChecksumMatches(OnDiskBackupLba * 512,
                            OnDiskBackupLba * 512 - PartitionArrayBytes)
    /\ ArrayChecksumMatches(OnDiskBackupLba * 512, ArrayFieldOffset(OnDiskBackupLba * 512))

\* init has succeeded and both headers carry nonzero checksums
C3_Witness ==
  /\ InitSucceeded
  /\ \A location \in {512, OnDiskBackupLba * 512} :
       /\ BlobSeq(Slice(disk, location + 16, 4)) # <<0, 0, 0, 0>>
       /\ BlobSeq(Slice(disk, location + 88, 4)) # <<0, 0, 0, 0>>

\* transfer e touches bytes [from, from + n) of the file
Touches(e, from, n) == e.at < from + n /\ from < e.at + e.len

\* C4: whenever the 92 bytes of a header have been read for its checksum, the
\* write of that header's entry-array checksum (byte 88) came earlier, and
\* every later write to bytes 0..91 of that header is the 4-byte write of its
\* own checksum field (byte 16); a successful pass has read both headers.
C4_ArrayChecksumFirst ==
  /\ \A r \in 1..Len(trace) :
       (trace[r].op = "read" /\ trace[r].len = GPT_HEADER_SIZE) =>
          LET location == trace[r].at
          IN /\ \E w \in 1..(r - 1) :
                  trace[w] = [op |-> "write", at |-> location + 88, len |-> 4]
             /\ \A j \in (r + 1)..Len(trace) :
                  (trace[j].op = "write" /\ Touches(trace[j], location, GPT_HEADER_SIZE))
                     => (trace[j].at = location + 16 /\ trace[j].len = 4)
  /\ InitSucceeded =>
       \A location \in {512, OnDiskBackupLba * 512} :
          \E r \in 1..Len(trace) :
             /\ trace[r] = [op |-> "read", at |-> location, len |-> GPT_HEADER_SIZE]
             /\ \E j \in (r + 1)..Len(trace) :
                  trace[j] = [op |-> "write", at |-> location + 16, len |-> 4]

\* the pass has run to its end: both header checksums were written
C4_Witness ==
  /\ InitSucceeded
  /\ \E j \in 1..Len(trace) : trace[j] = [op |-> "write", at |-> 512 + 16, len |-> 4]
  /\ \E j \in 1..Len(trace) :
       trace[j] = [op |-> "write", at |-> OnDiskBackupLba * 512 + 16, len |-> 4]

\* C7: init --disk-size N is rejected for N one below the computed minimum and
\* accepted (it goes on to write the disk) for N equal to the minimum.
C7_DiskSizeBoundary ==
  /\ (argv = <<OptDiskSize, NumberArg(minimum_size - 1)>> /\ pc # "init_args")
       => (pc = "exit" /\ rc = "EXIT_FAILURE")
  /\ (argv = <<OptDiskSize, NumberArg(minimum_size)>> /\ pc # "init_args")
       => ~(pc = "exit" /\ rc = "EXIT_FAILURE")

\* C9: in the backup header written by init, current LBA is the primary's
\* backup LBA, backup LBA is the primary's current LBA (1), and the
\* partition-array LBA times 512 is the offset at which the backup entries
\* were written and are read back for their checksum.
C9_BackupHeaderMirrorsPrimary ==
  InitSucceeded =>
    LET primary == OnDiskHeader(512)
        backup  == OnDiskHeader(OnDiskBackupLba * 512)
    IN /\ U64Value(Slice(backup, 24, 8)) = U64Value(Slice(primary, 32, 8))
       /\ U64Value(Slice(backup, 32, 8)) = U64Value(Slice(primary, 24, 8))
       /\ U64Value(Slice(backup, 32, 8)) = 1
       /\ \A j \in 1..Len(trace) :
            (trace[j].len = PartitionArrayBytes /\ trace[j].at # 1024)
               => U64Value(Slice(backup, 72, 8)) * 512 = trace[j].at

---------------------------------------------------------------------------
(* SpecExport: ramfs_export for stage binaries of several sizes and trees  *)
(* of several sizes.                                                       *)

\* sizes of a stage binary: none, one byte, around a sector, around the limit
StageSizes == {0, 1, 512, 513, 65024, 65025}

\* pure64_cp, lines 862-877: the file added last is given its contents
SetLastFileData(d, data) ==
  [d EXCEPT !.files[d.file_count] = [@ EXCEPT !.data = data, !.data_size = data.size]]

\* the root directory with one more file of the given contents
WithFile(d, name, data) ==
  SetLastFileData(pure64_dir_add_file(d, CString(name), "none").dir, data)

\* a root with a file and a subdirectory that holds a file
SmallTree ==
  LET root == WithFile(pure64_dir_init, <<97>>, Blob(<<1, 2, 3>>))
      sub  == pure64_dir_add_subdir(root, CString(<<100>>), "none").dir
  IN [sub EXCEPT !.subdirs[1] = WithFile(@, <<98>>, EmptyBlob)]

\* n bytes of file contents, zero but for the first and the last
SparseData(n) == [size |-> n, nz |-> [o \in {0, n - 1} |-> 9]]

\* the bytes a root holding one file with a one-letter name takes besides the data
OneFileOverhead == (3 * 8) + (2 * 8) + 1

\* a root whose serialization, begun at offset from, ends at offset end
TreeEndingAt(from, end) ==
  WithFile(pure64_dir_init, <<97>>, SparseData((end - from) - OneFileOverhead))

\* where the serialization of the trees is made to end
EndPositions ==
  {PURE64_MINIMUM_DISK_SIZE - 1, PURE64_MINIMUM_DISK_SIZE, PURE64_MINIMUM_DISK_SIZE + 1,
   PURE64_MINIMUM_DISK_SIZE + 512, PURE64_MINIMUM_DISK_SIZE + 1023}

ExportTrees(s2, s3) ==
  {pure64_dir_init, SmallTree}
    \cup {TreeEndingAt(RoundToSector((Stage2Location + s2) + s3), e) : e \in EndPositions}

InitExport ==
  /\ pc = "export_check"
  /\ rc = "none"
  /\ pure64_data_size \in StageSizes
  /\ stage_three_data_size \in StageSizes
  /\ fs \in {[root |-> t] : t \in ExportTrees(pure64_data_size, stage_three_data_size)}
  /\ st2_offset = 0 /\ st3_offset = 0 /\ fs_offset = 0 /\ pos = 0
  /\ NoDisk /\ NoCrc /\ NoInit /\ NoDir

NextExport ==
  \/ ramfs_export_check
  \/ ramfs_export_open
  \/ ramfs_export_layout
  \/ ramfs_export_stages
  \/ ramfs_export_fs
  \/ ramfs_export_pad
  \/ ramfs_export_mbr

SpecExport == InitExport /\ [][NextExport]_vars

---------------------------------------------------------------------------
(* Properties of image assembly.                                           *)

ExportSucceeded == pc = "exit" /\ rc = "EXIT_SUCCESS"

\* the three offsets have been computed
LayoutComputed == pc \in {"export_stages", "export_fs", "export_pad", "export_mbr"}

\* C5: for accepted stage sizes the three offsets are multiples of 512 and
\* strictly increasing: stage2_offset < stage3_offset < filesystem_offset.
C5_OffsetsStrictlyIncreasing ==
  LayoutComputed =>
    /\ st2_offset % 512 = 0 /\ st3_offset % 512 = 0 /\ fs_offset % 512 = 0
    /\ st2_offset < st3_offset
    /\ st3_offset < fs_offset

\* C6: a stage binary larger than 65024 bytes makes the planner return failure
\* with the destination neither opened nor written; with both binaries at most
\* 65024 bytes the size checks pass and the planner goes on to open the file.
C6_StageSizeLimit ==
  /\ []((pc # "export_check" /\ (pure64_data_size > 65024 \/ stage_three_data_size > 65024))
          => (pc = "exit" /\ rc = "EXIT_FAILURE" /\ disk = EmptyBlob /\ trace = <<>>))
  /\ [][(pc = "export_check" /\ pure64_data_size <= 65024 /\ stage_three_data_size <= 65024)
          => (pc' = "export_open" /\ rc' = "none")]_vars

\* a stage of 65025 bytes beside one of exactly 65024 has been rejected
C6_Witness ==
  /\ pc = "exit" /\ rc = "EXIT_FAILURE"
  /\ pure64_data_size = 65024 /\ stage_three_data_size = 65025

---------------------------------------------------------------------------
(* SpecDir: directory calls on a tree, then the tree exported to a stream  *)
(* and imported from it.                                                   *)

\* the most files and subdirectories a tree is grown to
MaxNodes == 3
\* the deepest a subdirectory is nested
MaxDepth == 2

\* "a" and "b"
DirNames == {<<97>>, <<98>>}

\* contents given to a file
FileDatas == {Blob(<<7>>), Blob(<<0, 255, 0>>)}

\* where in the stream the export starts
StreamStarts == {0, 5}

RECURSIVE DirAt(_, _)
\* the directory reached from d through the subdirectory indices of path
DirAt(d, path) ==
  IF path = <<>> THEN d ELSE DirAt(d.subdirs[Head(path)], Tail(path))

RECURSIVE ReplaceAt(_, _, _)
\* d with the directory at path replaced by new
ReplaceAt(d, path, new) ==
  IF path = <<>> THEN new
  ELSE [d EXCEPT !.subdirs[Head(path)] = ReplaceAt(@, Tail(path), new)]

RECURSIVE Paths(_)
\* the paths of all directories of the tree d
Paths(d) ==
  {<<>>} \cup UNION {{<<i>> \o p : p \in Paths(d.subdirs[i])} : i \in 1..d.subdir_count}

RECURSIVE NodeCount(_)
RECURSIVE NodeCountFrom(_, _)
NodeCountFrom(d, i) ==
  IF i > d.subdir_count THEN 0
  ELSE 1 + NodeCount(d.subdirs[i]) + NodeCountFrom(d, i + 1)
\* the files and subdirectories below d
NodeCount(d) == d.file_count + NodeCountFrom(d, 1)

\* which allocation of an add call fails
AllocFailures == {"none", "realloc", "set_name"}

Call(op, name, path, fail, stale, at) ==
  [op |-> op, name |-> name, path |-> path, fail |-> fail, stale |-> stale,
   uninit |-> FALSE, at |-> at]

InitDir ==
  /\ pc = "dir_build"
  /\ rc = "none"
  /\ NoDisk /\ NoCrc /\ NoInit /\ NoExport /\ NoDir

\* pure64_dir_add_file on the directory at path, the name one of names
DirAddFileOf(names) ==
  /\ pc = "dir_build"
  /\ ~call.stale
  /\ \E path \in Paths(dir), name \in names, fail \in AllocFailures :
       LET target == DirAt(dir, path)
           r == pure64_dir_add_file(target, CString(name), fail)
       IN /\ (r.err = 0 => NodeCount(dir) < MaxNodes)
          /\ dir' = ReplaceAt(dir, path, r.dir)
          /\ err' = r.err
          /\ call' = Call("add_file", name, path, fail, r.stale, 0)
  /\ UNCHANGED <<pc, rc, disk, fpos, trace, initVars, crcVars, exportVars, imported>>

DirAddFile == DirAddFileOf(DirNames)

\* pure64_dir_add_subdir on the directory at path, the name one of names
DirAddSubdirOf(names) ==
  /\ pc = "dir_build"
  /\ ~call.stale
  /\ \E path \in Paths(dir), name \in names, fail \in AllocFailures :
       LET target == DirAt(dir, path)
           r == pure64_dir_add_subdir(target, CString(name), fail)
       IN /\ (r.err = 0 => (NodeCount(dir) < MaxNodes /\ Len(path) < MaxDepth))
          /\ dir' = ReplaceAt(dir, path, r.dir)
          /\ err' = r.err
          /\ call' = Call("add_subdir", name, path, fail, r.stale, 0)
  /\ UNCHANGED <<pc, rc, disk, fpos, trace, initVars, crcVars, exportVars, imported>>

DirAddSubdir == DirAddSubdirOf(DirNames)

\* pure64_cp, lines 862-877: the file just added to the directory at path is
\* given its contents
DirSetData ==
  /\ pc = "dir_build"
  /\ call.op = "add_file" /\ err = 0
  /\ \E data \in FileDatas :
       /\ dir' = ReplaceAt(dir, call.path, SetLastFileData(DirAt(dir, call.path), data))
       /\ call' = Call("set_data", call.name, call.path, "none", FALSE, 0)
  /\ UNCHANGED <<pc, rc, err, disk, fpos, trace, initVars, crcVars, exportVars, imported>>

\* pure64_dir_export of the whole tree to the stream standing at offset at
DirExport ==
  /\ pc = "dir_build"
  /\ ~call.stale
  /\ \E at \in StreamStarts :
       \/ \* a write is short: pure64_dir_export returns the error
          /\ err' = PURE64_EIO
          /\ call' = Call("export", <<>>, <<>>, "write", FALSE, at)
          /\ UNCHANGED <<pc, disk, fpos, trace>>
       \/ /\ SetIO(pure64_dir_export(dir, fseek(IO, at)))
          /\ err' = 0
          /\ call' = Call("export", <<>>, <<>>, "none", FALSE, at)
          /\ pc' = "dir_exported"
  /\ UNCHANGED <<rc, dir, initVars, crcVars, exportVars, imported>>

\* pure64_dir_import into an initialised directory, the stream set back to
\* where the export started
DirImport ==
  /\ pc = "dir_exported"
  /\ \E nomem \in BOOLEAN :
       \E r \in {pure64_dir_import(pure64_dir_init, fseek(IO, call.at), nomem)} :
          /\ imported' = r.dir
          /\ err' = r.err
          /\ SetIO(r.io)
          /\ call' = [Call("import", <<>>, <<>>, IF nomem THEN "malloc" ELSE "none",
                           r.stale, call.at) EXCEPT !.uninit = r.uninit]
  /\ pc' = "dir_imported"
  /\ UNCHANGED <<rc, dir, initVars, crcVars, exportVars>>

NextDir ==
  \/ DirAddFile
  \/ DirAddSubdir
  \/ DirSetData
  \/ DirExport
  \/ DirImport

SpecDir == InitDir /\ [][NextDir]_vars

---------------------------------------------------------------------------
(* Properties of the directory tree and its codec.                         *)

\* the characters of a name buffer
NameOf(name, name_size) == SubSeq(name, 1, name_size)

\* two file records agree in name and contents
SameFile(a, b) ==
  /\ a.name_size = b.name_size
  /\ NameOf(a.name, a.name_size) = NameOf(b.name, b.name_size)
  /\ a.data_size = b.data_size
  /\ BlobSeq(Slice(a.data, 0, a.data_size)) = BlobSeq(Slice(b.data, 0, b.data_size))

RECURSIVE SameTree(_, _)
\* two directories agree in name, in their files in order and, recursively, in
\* their subdirectories in order
SameTree(a, b) ==
  /\ a.name_size = b.name_size
  /\ NameOf(a.name, a.name_size) = NameOf(b.name, b.name_size)
  /\ a.subdir_count = b.subdir_count /\ Len(a.subdirs) = Len(b.subdirs)
  /\ a.file_count = b.file_count /\ Len(a.files) = Len(b.files)
  /\ \A i \in 1..a.file_count : SameFile(a.files[i], b.files[i])
  /\ \A i \in 1..a.subdir_count : SameTree(a.subdirs[i], b.subdirs[i])

\* C1: a tree built by successful add calls, exported with pure64_dir_export
\* and decoded by pure64_dir_import from the same start position, comes back
\* identical: the import returns 0 and names, order and file bytes agree.
C1_RoundTrip ==
  (pc = "dir_imported" /\ call.fail = "none") => (err = 0 /\ SameTree(imported, dir))

\* a tree with a subdirectory that holds a file with contents, and a file of
\* its own, has made the round trip
C1_Witness ==
  /\ pc = "dir_imported" /\ call.fail = "none"
  /\ dir.subdir_count = 1 /\ dir.file_count = 1
  /\ dir.subdirs[1].file_count = 1
  /\ dir.subdirs[1].files[1].data_size = 3
  /\ imported.subdirs[1].files[1].data_size = 3

\* some child of d, file or subdirectory, has the characters of name as its name
NameTaken(d, name) ==
  \/ \E i \in 1..Len(d.files) : NameOf(d.files[i].name, d.files[i].name_size) = name
  \/ \E i \in 1..Len(d.subdirs) : NameOf(d.subdirs[i].name, d.subdirs[i].name_size) = name

\* C2: pure64_dir_add_file or pure64_dir_add_subdir with the name of an
\* existing child, file or subdirectory, returns PURE64_EEXIST and leaves the
\* directory as it was: counts and both child sequences unchanged.
C2_DuplicateNameRejected ==
  [][(/\ pc = "dir_build"
      /\ call'.op \in {"add_file", "add_subdir"}
      /\ NameTaken(DirAt(dir, call'.path), call'.name))
       => (err' = PURE64_EEXIST /\ dir' = dir)]_vars

\* a subdirectory was refused because a file has its name
C2_Witness ==
  /\ call.op = "add_subdir" /\ err = PURE64_EEXIST
  /\ \E i \in 1..DirAt(dir, call.path).file_count :
       NameOf(DirAt(dir, call.path).files[i].name,
              DirAt(dir, call.path).files[i].name_size) = call.name

---------------------------------------------------------------------------
(* Properties of the MBR update.                                           *)

\* the bytes of sector 0 that hold a packet's sector_count and sector fields
DapFieldOffsets ==
  UNION {((dap + DapSectorCountOffset)..(dap + DapSectorCountOffset + 1))
           \cup ((dap + DapSectorOffset)..(dap + DapSectorOffset + 7))
         : dap \in {St2DapOffset, St3DapOffset}}

\* the 16-bit sector_count and the 64-bit sector of the packet at dap, on disk
DapSectorCount(dap) ==
  ByteAt(disk, dap + DapSectorCountOffset) + 256 * ByteAt(disk, dap + DapSectorCountOffset + 1)
DapSector(dap) == U64Value(Slice(disk, dap + DapSectorOffset, 8))

\* the number of sectors that n bytes take
SectorsFor(n) == (n \div 512) + (IF n % 512 = 0 THEN 0 ELSE 1)

\* C11: after a successful assembly the MBR holds the stage-2 descriptor
\* (sector stage2_offset/512, count ceil(S2/512)) and the stage-3 descriptor
\* (sector stage3_offset/512, count ceil(S3/512)), both counts at most 0x7F;
\* every other byte of sector 0 is the MBR byte written first, and the update
\* step changes no byte outside sector 0.
C11_MbrPatched ==
  /\ [](ExportSucceeded =>
          /\ DapSector(St2DapOffset) * 512 = st2_offset
          /\ DapSectorCount(St2DapOffset) = SectorsFor(pure64_data_size)
          /\ DapSector(St3DapOffset) * 512 = st3_offset
          /\ DapSectorCount(St3DapOffset) = SectorsFor(stage_three_data_size)
          /\ DapSectorCount(St2DapOffset) <= 127 /\ DapSectorCount(St3DapOffset) <= 127
          /\ \A o \in (0..511) \ DapFieldOffsets : ByteAt(disk, o) = mbr_data[o + 1])
  /\ [][pc = "export_mbr" =>
          /\ disk'.size = disk.size
          /\ Slice(disk', 512, disk.size - 512) = Slice(disk, 512, disk.size - 512)]_vars

\* an assembly has succeeded with stages of 513 and 65024 bytes: two sectors
\* and 0x7F sectors
C11_Witness ==
  /\ ExportSucceeded
  /\ pure64_data_size = 513 /\ stage_three_data_size = 65024
  /\ DapSectorCount(St2DapOffset) = 2 /\ DapSectorCount(St3DapOffset) = 127

---------------------------------------------------------------------------
(* Properties of the layout written by init.                               *)

\* the half-open byte ranges <<from, to>> of the five regions of an image of
\* d bytes: MBR, primary header, primary entries, backup entries, backup header
InitRegions(d) ==
  <<<<0, 512>>, <<512, 1024>>, <<1024, 17408>>,
    <<(d - 512) - 16384, d - 512>>, <<d - 512, d>>>>

\* two half-open ranges share no byte
Disjoint(r, s) == r[2] <= s[1] \/ s[2] <= r[1]

\* every byte of the range is zero on disk
ZeroOnDisk(r) == \A o \in DOMAIN disk.nz : o < r[1] \/ o >= r[2]

\* the eight signature bytes "EFI PART" stand at offset location
SignatureAt(location) ==
  BlobSeq(Slice(disk, location, 8)) = <<69, 70, 73, 32, 80, 65, 82, 84>>

\* C12: after a successful init with size D (a multiple of 512) the image is D
\* bytes long and holds the MBR in [0,512), the primary header in [512,1024),
\* 16384 zero bytes in [1024,17408), 16384 zero bytes in [D-16896, D-512) and
\* the backup header in [D-512, D); the five regions are pairwise disjoint,
\* first_usable_lba <= last_usable_lba, and the usable sectors overlap none
\* of them.
C12_InitLayout ==
  InitSucceeded =>
    LET d == disk_size
        regions == InitRegions(d)
        first == U64Value(Slice(disk, 512 + 40, 8))
        last == U64Value(Slice(disk, 512 + 48, 8))
        usable == <<first * 512, (last + 1) * 512>>
    IN /\ d % 512 = 0
       /\ disk.size = d
       /\ Slice(disk, 0, 512) = Blob(mbr_data)
       /\ SignatureAt(512) /\ U64Value(Slice(disk, 512 + 24, 8)) = 1
       /\ ZeroOnDisk(regions[3])
       /\ ZeroOnDisk(regions[4])
       /\ SignatureAt(d - 512) /\ U64Value(Slice(disk, (d - 512) + 24, 8)) * 512 = d - 512
       /\ \E w \in 1..Len(trace) :
            trace[w] = [op |-> "write", at |-> regions[3][1], len |-> 16384]
       /\ \E w \in 1..Len(trace) :
            trace[w] = [op |-> "write", at |-> regions[4][1], len |-> 16384]
       /\ \A i \in 1..5 : \A j \in 1..5 : i # j => Disjoint(regions[i], regions[j])
       /\ first <= last
       /\ \A i \in 1..5 : Disjoint(usable, regions[i])

\* init has succeeded on an image of the default size with a UUID of its own
C12_Witness ==
  /\ InitSucceeded
  /\ disk.size = 1048576
  /\ BlobSeq(Slice(disk, 512 + 56, 16)) = OtherDiskUuid.b

---------------------------------------------------------------------------
(* Transfers whose result the code does not examine: the fputc calls of    *)
(* zero_file_data (pure64.c:58-62, called at 745 and 755) and the fseek    *)
(* and fputc of the padding (557-563).  A failed transfer is kept in the   *)
(* history as an event "fail" with the place and the length asked for.     *)

\* the history with a failed transfer of len bytes at offset at
Failed(io, at, len) ==
  [io EXCEPT !.trace = Append(io.trace, [op |-> "fail", at |-> at, len |-> len])]

\* zero_file_data (58-62) when every fputc returns EOF: no byte reaches the
\* file, and the loop runs to its end without looking at the results
zero_file_data_failing(io, size) == Failed(io, io.fpos, size)

\* where the padding seeks to (557-563), or -1 when there is no padding
PadTarget(p) ==
  IF p < PURE64_MINIMUM_DISK_SIZE THEN PURE64_MINIMUM_DISK_SIZE - 1
  ELSE IF (p % 512) # 0 THEN (p + (512 - (p % 512))) - 1
  ELSE 0 - 1

\* lines 557-563 when the fseek or the fputc fails: after a failed fseek the
\* byte is written where the position indicator was left; after a failed
\* fputc nothing is written
PadImage_failing(io, p, failing) ==
  IF failing = "fseek"
  THEN fputc(Failed(io, PadTarget(p), 0), 0)
  ELSE Failed(fseek(io, PadTarget(p)), PadTarget(p), 1)

\* lines 718-745 with the zero-fill of the primary entries failing
pure64_init_primary_zero_fill_fails ==
  /\ pc = "init_primary"
  /\ gpt_header' = PrimaryHeader(gpt_header, disk_size)
  /\ SetIO(zero_file_data_failing(export_gpt_header(IO, gpt_header'),
                                  GPT_PARTITION_HEADER_SIZE * GPT_PARTITION_HEADER_COUNT))
  /\ pc' = "init_backup"
  /\ UNCHANGED <<rc, argv, disk_size, disk_uuid_str, crcVars, exportVars, dirVars>>

\* lines 747-779 with the zero-fill of the backup entries failing
pure64_init_backup_zero_fill_fails ==
  /\ pc = "init_backup"
  /\ gpt_header' = BackupHeader(gpt_header)
  /\ SetIO(export_gpt_header(
             fseek(zero_file_data_failing(fseek(IO, BackupArrayOffset(gpt_header)),
                     GPT_PARTITION_HEADER_SIZE * GPT_PARTITION_HEADER_COUNT),
                   gpt_header.backup_lba * 512),
             gpt_header'))
  /\ pc' = "init_checksums"
  /\ UNCHANGED <<rc, argv, disk_size, disk_uuid_str, crcVars, exportVars, dirVars>>

\* lines 557-563 with the padding's fseek or fputc failing
ramfs_export_pad_fails ==
  /\ pc = "export_pad"
  /\ PadTarget(pos) >= 0
  /\ \E failing \in {"fseek", "fputc"} : SetIO(PadImage_failing(IO, pos, failing))
  /\ pc' = "export_mbr"
  /\ UNCHANGED <<rc, initVars, crcVars, exportVars, dirVars>>

\* init without options, or image assembly
InitFaults ==
  \/ InitInit /\ argv = <<>>
  \/ InitExport

NextFaults ==
  \/ NextInit
  \/ NextExport
  \/ pure64_init_primary_zero_fill_fails
  \/ pure64_init_backup_zero_fill_fails
  \/ ramfs_export_pad_fails

\* init and image assembly on a destination whose transfers can fail
SpecFaults == InitFaults /\ [][NextFaults]_vars

\* some write or seek on the destination has failed without ending the run
\* (a failure the code tests for ends the run in the same step, with
\* EXIT_FAILURE)
TransferFailed == \E i \in DOMAIN trace : trace[i].op = "fail"

\* C13: when a write or a seek on the destination fails in pure64_init or in
\* ramfs_export, the zero-fill of the partition entries and the padding write
\* included, the command does not end with EXIT_SUCCESS.
C13_FailedTransferIsFatal ==
  TransferFailed => ~(pc = "exit" /\ rc = "EXIT_SUCCESS")

---------------------------------------------------------------------------
(* Properties of the regions written by image assembly.                    *)

\* C14: for accepted stage sizes the stage-2 bytes end at or before
\* stage3_offset and the stage-3 bytes end at or before filesystem_offset, and
\* after a successful assembly the bytes of stage 3 are still in the image
\* where they were written.
C14_RegionsInOrder ==
  /\ LayoutComputed =>
       /\ st2_offset + pure64_data_size <= st3_offset
       /\ st3_offset + stage_three_data_size <= fs_offset
  /\ ExportSucceeded =>
       Slice(disk, st3_offset, stage_three_data_size) = stage_three_data

\* the stage-2 half alone: stage 2 ends at or before stage3_offset
Stage2BeforeStage3 ==
  LayoutComputed => st2_offset + pure64_data_size <= st3_offset

\* the bytes of stage 3 alone
Stage3Kept ==
  (ExportSucceeded /\ st3_offset + stage_three_data_size <= fs_offset) =>
       Slice(disk, st3_offset, stage_three_data_size) = stage_three_data

---------------------------------------------------------------------------
(* Sequences of pure64_dir_add_file and pure64_dir_add_subdir calls on a   *)
(* tree grown from the empty directory, any allocation of a call failing.  *)
(* When pure64_realloc has succeeded and the name cannot be set, the call  *)
(* returns without storing the new block (dir.c:68-72, 101-105): if the    *)
(* block was moved, dir->files (dir->subdirs) points at released memory,   *)
(* and whoever reads the array next finds whatever that memory holds.      *)

\* "a", "b" and "c"
AddNames == DirNames \cup {<<99>>}

\* what an array of files may be read as once its block has been released:
\* as many records, their names any of the names in use
ReleasedFiles(files) ==
  {[i \in 1..Len(files) |-> pure64_file_set_name(files[i], CString(s[i]))] :
     s \in [1..Len(files) -> AddNames]}

\* what an array of subdirectories may be read as once its block has been
\* released
ReleasedSubdirs(subdirs) ==
  {[i \in 1..Len(subdirs) |-> pure64_dir_set_name(subdirs[i], CString(s[i]))] :
     s \in [1..Len(subdirs) -> AddNames]}

\* the directory of the last call is read after a call that left its array
\* pointer behind (dir.c:53 of the next call, or pure64_dir_export)
DirReadReleased ==
  /\ pc = "dir_build"
  /\ call.stale
  /\ call.op \in {"add_file", "add_subdir"}
  /\ LET target == DirAt(dir, call.path)
     IN IF call.op = "add_file"
        THEN \E read \in ReleasedFiles(target.files) :
               dir' = ReplaceAt(dir, call.path, [target EXCEPT !.files = read])
        ELSE \E read \in ReleasedSubdirs(target.subdirs) :
               dir' = ReplaceAt(dir, call.path, [target EXCEPT !.subdirs = read])
  /\ call' = [call EXCEPT !.op = "read_released"]
  /\ UNCHANGED <<pc, rc, err, disk, fpos, trace, initVars, crcVars, exportVars, imported>>

NextAdd ==
  \/ DirAddFileOf(AddNames)
  \/ DirAddSubdirOf(AddNames)
  \/ DirReadReleased

\* add calls from the empty directory, and the reads that follow them
SpecAdd == InitDir /\ [][NextAdd]_vars

\* the names of the children of d, the files first
ChildNames(d) ==
  [i \in 1..Len(d.files) |-> NameOf(d.files[i].name, d.files[i].name_size)]
    \o [i \in 1..Len(d.subdirs) |-> NameOf(d.subdirs[i].name, d.subdirs[i].name_size)]

RECURSIVE UniqueNames(_)
\* no two children of a directory of the tree d have the same name
UniqueNames(d) ==
  /\ \A i, j \in DOMAIN ChildNames(d) : i # j => ChildNames(d)[i] # ChildNames(d)[j]
  /\ \A i \in 1..Len(d.subdirs) : UniqueNames(d.subdirs[i])

\* the step is an add call that returned 0 and did what a successful call does
\* to the directory t it was made on, giving t2
AppendedOne(t, t2, op, name) ==
  /\ t2.name = t.name /\ t2.name_size = t.name_size
  /\ IF op = "add_file"
     THEN /\ t2.file_count = t.file_count + 1
          /\ Len(t2.files) = Len(t.files) + 1
          /\ SubSeq(t2.files, 1, Len(t.files)) = t.files
          /\ NameOf(t2.files[Len(t2.files)].name, t2.files[Len(t2.files)].name_size) = name
          /\ t2.subdir_count = t.subdir_count /\ t2.subdirs = t.subdirs
     ELSE /\ t2.subdir_count = t.subdir_count + 1
          /\ Len(t2.subdirs) = Len(t.subdirs) + 1
          /\ SubSeq(t2.subdirs, 1, Len(t.subdirs)) = t.subdirs
          /\ NameOf(t2.subdirs[Len(t2.subdirs)].name,
                    t2.subdirs[Len(t2.subdirs)].name_size) = name
          /\ t2.file_count = t.file_count /\ t2.files = t.files

\* every successful add call appends one child of the given name at the end
\* of its own array, adds one to that array's count and leaves the rest of
\* the tree as it was
SuccessfulAddAppends ==
  [][(call'.op \in {"add_file", "add_subdir"} /\ err' = 0 /\ call' # call)
       => /\ AppendedOne(DirAt(dir, call'.path), DirAt(dir', call'.path),
                         call'.op, call'.name)
          /\ dir' = ReplaceAt(dir, call'.path, DirAt(dir', call'.path))]_vars

\* C15: after any sequence of pure64_dir_add_file and pure64_dir_add_subdir
\* calls from the empty directory, failing calls included, no two children of
\* a directory have the same name, files and subdirectories taken together;
\* and each successful call appends exactly one child of the given name at the
\* end of its own array, adds one to that array's count and leaves the
\* children that were there, and their order, unchanged.
C15_AddKeepsNamesUnique ==
  /\ [](UniqueNames(dir))
  /\ SuccessfulAddAppends

\* the names as long as no call has left an array pointer behind
UniqueWhileValid == (call.op # "read_released") => UniqueNames(dir)

---------------------------------------------------------------------------
(* init followed by mkfs on the same file (main, pure64.c:985-989).        *)

\* main, line 988, after an init that succeeded on the same file: pure64_mkfs
\* (928-949) hands a fresh file system to ramfs_export
main_mkfs ==
  /\ pc = "exit" /\ rc = "EXIT_SUCCESS"
  /\ gpt_header # UnsetHeader
  /\ NoExport
  /\ pc' = "export_check"
  /\ rc' = "none"
  /\ pure64_data_size' \in StageSizes
  /\ stage_three_data_size' \in StageSizes
  /\ fs' = pure64_fs_init
  /\ UNCHANGED <<disk, fpos, trace, initVars, crcVars, st2_offset, st3_offset,
                 fs_offset, pos, dirVars>>

NextInitMkfs ==
  \/ NextInit
  \/ main_mkfs
  \/ NextExport

\* init without options
InitInitMkfs == InitInit /\ argv = <<>>

\* init, then mkfs on the file init has prepared
SpecInitMkfs == InitInitMkfs /\ [][NextInitMkfs]_vars

\* the primary GPT header sector and the primary partition-entry array
GptRegion == <<512, 1024 + PartitionArrayBytes>>

\* ramfs_export is running
Assembling ==
  pc \in {"export_check", "export_open", "export_layout", "export_stages", "export_fs",
          "export_pad", "export_mbr"}

\* C16: image assembly run on a file prepared by init leaves the primary GPT
\* header sector [512,1024) and the primary partition-entry array [1024,17408)
\* as init wrote them: no step of the assembly changes a byte of them, and the
\* stage-2, stage-3 and file-system regions lie outside them.
C16_AssemblyKeepsGpt ==
  /\ [](LayoutComputed =>
          /\ (pure64_data_size > 0 =>
                Disjoint(<<st2_offset, st2_offset + pure64_data_size>>, GptRegion))
          /\ (stage_three_data_size > 0 =>
                Disjoint(<<st3_offset, st3_offset + stage_three_data_size>>, GptRegion))
          /\ fs_offset >= GptRegion[2])
  /\ [][Assembling =>
          Slice(disk', GptRegion[1], GptRegion[2] - GptRegion[1])
            = Slice(disk, GptRegion[1], GptRegion[2] - GptRegion[1])]_vars

\* the layout alone: a stage 2 that is not empty lies outside the GPT regions
Stage2OutsideGpt ==
  (LayoutComputed /\ pure64_data_size > 0) =>
    Disjoint(<<st2_offset, st2_offset + pure64_data_size>>, GptRegion)

\* the truncation alone: opening the destination keeps the GPT regions
OpenKeepsGpt ==
  [][pc = "export_open" =>
       Slice(disk', GptRegion[1], GptRegion[2] - GptRegion[1])
         = Slice(disk, GptRegion[1], GptRegion[2] - GptRegion[1])]_vars

---------------------------------------------------------------------------
(* Teardown after an import (main, pure64.c:993-996: ramfs_import, then    *)
(* pure64_fs_free whether or not it failed).  The stream may end early.    *)

\* how many bytes of the exported tree are left in a file that was cut short:
\* inside the first count, the second, the third, and at the name of the
\* first subdirectory
CutLengths == {4, 12, 20, 48}

\* pure64_dir_import from a file that ends cut bytes after the start of the tree
DirImportTruncated ==
  /\ pc = "dir_exported"
  /\ \E cut \in CutLengths :
       /\ call.at + cut < disk.size
       /\ \E r \in {pure64_dir_import(
                       pure64_dir_init,
                       fseek([IO EXCEPT !.disk = Slice(disk, 0, call.at + cut)], call.at),
                       FALSE)} :
            /\ imported' = r.dir
            /\ err' = r.err
            /\ SetIO(r.io)
            /\ call' = [Call("import", <<>>, <<>>, "read", r.stale, call.at)
                          EXCEPT !.uninit = r.uninit]
  /\ pc' = "dir_imported"
  /\ UNCHANGED <<rc, dir, initVars, crcVars, exportVars>>

\* dir.c:29-45 on a directory as an import left it.  released: a pointer of the
\* structure was already handed to pure64_free; unset: a slot counted by
\* subdir_count or file_count was never initialised.  The value is the
\* directory after the call and the fault the call commits, if any.
pure64_dir_free(d, released, unset) ==
  [dir   |-> [d EXCEPT !.name = <<>>, !.subdirs = <<>>, !.files = <<>>],
   fault |-> IF released THEN "released_twice"
             ELSE IF unset THEN "uninitialised_slot_read"
             ELSE "none"]

\* pure64_fs_free after the import: pure64_dir_free of the root
DirFree ==
  /\ pc = "dir_imported"
  /\ LET r == pure64_dir_free(imported, call.stale, call.uninit)
     IN /\ imported' = r.dir
        /\ call' = [call EXCEPT !.op = "free", !.fail = r.fault]
  /\ pc' = "dir_freed"
  /\ UNCHANGED <<rc, err, dir, disk, fpos, trace, initVars, crcVars, exportVars>>

NextTeardown ==
  \/ DirAddFile
  \/ DirAddSubdir
  \/ DirExport
  \/ DirImport
  \/ DirImportTruncated
  \/ DirFree

\* a tree is built and exported, then imported, from the whole file or from a
\* file cut short, and released
SpecTeardown == InitDir /\ [][NextTeardown]_vars

\* C17: wherever pure64_dir_import returns, with 0 or with an error, every
\* child slot counted by subdir_count and file_count has been initialised and
\* the directory holds no pointer to released memory, so the pure64_dir_free
\* that follows releases each buffer once and reads no uninitialised slot.
C17_TeardownSafe ==
  /\ (pc = "dir_imported" => (~call.stale /\ ~call.uninit))
  /\ (pc = "dir_freed" => call.fail = "none")

\* a directory whose import returned 0 is released without a fault
TeardownSafeAfterSuccess ==
  (pc = "dir_freed" /\ err = 0) => call.fail = "none"

---------------------------------------------------------------------------
(* Image assembly followed by ramfs_import of the same file (main,         *)
(* pure64.c:993, in the command that follows).  ramfs_import reads the     *)
(* tree at PURE64_DISK_LOCATION = PURE64_FS_SECTOR * 512 (lines 30-32,     *)
(* 606); PURE64_FS_SECTOR is defined outside src/, so the build's value is *)
(* one of several candidates, fixed before the first command and kept in   *)
(* call.at, the place the import reads at.                                 *)

\* candidates for PURE64_FS_SECTOR: the sectors where assembly puts the tree
\* for the smallest stage sizes
FsSectors == {16, 17, 19}

\* line 31: the value the build has given the macro
PURE64_DISK_LOCATION == call.at

\* lines 477-485: filesystem_offset for stage sizes s2 and s3
FsOffsetFor(s2, s3) == RoundToSector((Stage2Location + s2) + s3)

InitReadBack ==
  /\ pc = "export_check"
  /\ rc = "none"
  /\ pure64_data_size \in StageSizes
  /\ stage_three_data_size \in StageSizes
  /\ fs \in {[root |-> t] : t \in {pure64_dir_init, SmallTree}}
  /\ st2_offset = 0 /\ st3_offset = 0 /\ fs_offset = 0 /\ pos = 0
  /\ NoDisk /\ NoCrc /\ NoInit
  /\ dir = pure64_dir_init /\ err = 0 /\ imported = pure64_dir_init
  /\ call \in {[NoCall EXCEPT !.at = sector * 512] : sector \in FsSectors}

\* pure64_fs_import: the root directory read where the stream stands
pure64_fs_import(in) == pure64_dir_import(pure64_dir_init, in, FALSE)

\* lines 594-629, run on the file a successful assembly has left
ramfs_import ==
  /\ pc = "exit" /\ rc = "EXIT_SUCCESS"
  /\ call.op = "none"
  /\ \/ \* fopen or fseek fails
        /\ rc' = "EXIT_FAILURE"
        /\ call' = [call EXCEPT !.op = "import", !.fail = "open"]
        /\ UNCHANGED <<disk, fpos, trace, imported, err>>
     \/ \E r \in {pure64_fs_import(fseek(IO, PURE64_DISK_LOCATION))} :
          /\ imported' = r.dir
          /\ err' = r.err
          /\ SetIO(r.io)
          /\ rc' = IF r.err = 0 THEN "EXIT_SUCCESS" ELSE "EXIT_FAILURE"
          /\ call' = [call EXCEPT !.op = "import"]
  /\ pc' = "imported"
  /\ UNCHANGED <<dir, initVars, crcVars, exportVars>>

NextReadBack ==
  \/ NextExport
  \/ ramfs_import

\* image assembly, then the import of the next command
SpecReadBack == InitReadBack /\ [][NextReadBack]_vars

\* the import has run and did not fail to open the file
ReadBack == pc = "imported" /\ call.fail = "none"

\* C18: for every accepted pair of stage sizes the filesystem_offset at which
\* assembly serializes the tree is PURE64_DISK_LOCATION, where the import
\* reads it, and an import that follows the assembly on the same file returns
\* the tree that was exported.
C18_ReadBackWhereWritten ==
  /\ LayoutComputed => fs_offset = PURE64_DISK_LOCATION
  /\ ReadBack => (err = 0 /\ SameTree(fs.root, imported))

\* where the two offsets do agree the import returns the exported tree
ReadBackWhenAligned ==
  (ReadBack /\ fs_offset = PURE64_DISK_LOCATION) =>
    (err = 0 /\ SameTree(fs.root, imported))

\* whatever sector the macro names, some accepted pair of stage sizes puts the
\* tree elsewhere
NoFixedLocation ==
  \A sector \in 0..(FsOffsetFor(65024, 65024) \div 512) :
    \E s2, s3 \in {s \in StageSizes : ~StageTooBig(s)} :
      FsOffsetFor(s2, s3) # sector * 512

=============================================================================
